---- MODULE Spec2Model ----
(***************************************************************************)
(* Model of the DSM ingestion pipeline of src/db/db_manager.py:            *)
(* validate_dataframe, align_to_schema, detect_duplicates, the upsert of   *)
(* insert_dsm_data against the DuckDB tables dsm_data and ingestion_logs,  *)
(* and log_ingestion; and of the functions around it, each applied once   *)
(* to an argument: enrich_dsm_data of src/data/mapping_loader.py, the      *)
(* header mapping and the value cleaning of src/utils/column_mapper.py,    *)
(* and the upload section of src/app.py, run by run of the script; and of  *)
(* insert_dsm_data statement by statement for two concurrent callers.      *)
(*                                                                         *)
(* A cell value is a record [k, s]: k is the Python/SQL kind of the value  *)
(* ("str", "int", "num", "null") and s is what str() gives for it.  So the *)
(* integer 1 and the string "1" are different values with the same string  *)
(* form, NaN and None are both null but print as "nan" and "None".         *)
(***************************************************************************)
EXTENDS Integers, Sequences, FiniteSets, Bags, TLC

VARIABLES dsm_data, ingestion_logs, call, ncalls, fcall, session, inflight

vars == <<dsm_data, ingestion_logs, call, ncalls, fcall, session, inflight>>

(***************************************************************************)
(* Bounds of the model.                                                    *)
(***************************************************************************)
MaxBatch == 2
MaxCalls == 2
MaxRace == 3

(***************************************************************************)
(* Cell values.                                                            *)
(***************************************************************************)
StrV(x) == [k |-> "str", s |-> x]
IntV(x) == [k |-> "int", s |-> x]
NumV(x) == [k |-> "num", s |-> x]
NaN == [k |-> "null", s |-> "nan"]
None == [k |-> "null", s |-> "None"]

isnull(v) == v.k = "null"

(***************************************************************************)
(* Schema (db_manager.py 11-35).                                           *)
(***************************************************************************)
SCHEMA_DEFINITION ==
    <<"Site", "Connectivity", "Technology", "CY", "Month", "Measured_Energy_kWh",
      "Plant_Capacity", "PPA_Rate", "Actual_Revenue_INR", "Total_Penalty_INR",
      "Commercial_Loss", "QCA">>

SchemaColumns == {SCHEMA_DEFINITION[i] : i \in 1..Len(SCHEMA_DEFINITION)}

REQUIRED_COLUMNS ==
    {"Site", "Month", "Measured_Energy_kWh", "Actual_Revenue_INR",
     "Total_Penalty_INR", "QCA"}

\* UNIQUE_KEY = ["Site", "Month"]: the key of a row, as a pair of cell values.
UNIQUE_KEY(r) == <<r.Site, r.Month>>

(***************************************************************************)
(* DataFrames.  A DataFrame is [columns, rows]: the set of its column      *)
(* names and the sequence of its rows.  A row carries the key columns Site *)
(* and Month and the DOUBLE column Actual_Revenue_INR; the other canonical *)
(* columns travel through the pipeline like Actual_Revenue_INR and are not *)
(* represented in a row.                                                   *)
(***************************************************************************)
Range(s) == {s[i] : i \in DOMAIN s}

SeqToBag(s) == [r \in Range(s) |-> Cardinality({i \in DOMAIN s : s[i] = r})]

\* df[col].isnull().sum()
NullCount(rows, col) == Cardinality({i \in DOMAIN rows : isnull(rows[i][col])})

\* duplicated with a fault: keep='first', the first row of a key is not marked.
duplicated_KeepFirst(rows) ==
    {i \in DOMAIN rows :
        \E j \in DOMAIN rows : j < i /\ UNIQUE_KEY(rows[j]) = UNIQUE_KEY(rows[i])}

\* df.duplicated(subset=UNIQUE_KEY, keep=False): the positions of all rows
\* whose key occurs at another position too (equality of the raw Python values).
duplicated(rows) ==
    {i \in DOMAIN rows :
        \E j \in DOMAIN rows : j # i /\ UNIQUE_KEY(rows[j]) = UNIQUE_KEY(rows[i])}

(***************************************************************************)
(* validate_dataframe: (is_valid, error_message).  The message is kept as  *)
(* [kind, count, cols]: which check failed, the count it reports and the   *)
(* columns it names.  The last check (pd.to_numeric with errors='coerce')  *)
(* cannot raise, so it never rejects.                                      *)
(***************************************************************************)
NoMessage == [kind |-> "None", count |-> 0, cols |-> {}]

\* validate_dataframe with a fault: the duplicate check runs before the
\* null check.
validate_dataframe_DuplicatesFirst(df) ==
    LET missing_cols == {c \in REQUIRED_COLUMNS : c \notin df.columns}
    IN  IF missing_cols # {}
        THEN [ok |-> FALSE,
              msg |-> [kind |-> "Missing required columns",
                       count |-> Cardinality(missing_cols), cols |-> missing_cols]]
        ELSE IF duplicated(df.rows) # {}
        THEN [ok |-> FALSE,
              msg |-> [kind |-> "duplicate rows",
                       count |-> Cardinality(duplicated(df.rows)), cols |-> {}]]
        ELSE IF NullCount(df.rows, "Site") > 0
        THEN [ok |-> FALSE,
              msg |-> [kind |-> "null values in key",
                       count |-> NullCount(df.rows, "Site"), cols |-> {"Site"}]]
        ELSE IF NullCount(df.rows, "Month") > 0
        THEN [ok |-> FALSE,
              msg |-> [kind |-> "null values in key",
                       count |-> NullCount(df.rows, "Month"), cols |-> {"Month"}]]
        ELSE [ok |-> TRUE, msg |-> NoMessage]

validate_dataframe(df) ==
    LET missing_cols == {c \in REQUIRED_COLUMNS : c \notin df.columns}
    IN  IF missing_cols # {}
        THEN [ok |-> FALSE,
              msg |-> [kind |-> "Missing required columns",
                       count |-> Cardinality(missing_cols), cols |-> missing_cols]]
        ELSE IF NullCount(df.rows, "Site") > 0
        THEN [ok |-> FALSE,
              msg |-> [kind |-> "null values in key",
                       count |-> NullCount(df.rows, "Site"), cols |-> {"Site"}]]
        ELSE IF NullCount(df.rows, "Month") > 0
        THEN [ok |-> FALSE,
              msg |-> [kind |-> "null values in key",
                       count |-> NullCount(df.rows, "Month"), cols |-> {"Month"}]]
        ELSE IF duplicated(df.rows) # {}
        THEN [ok |-> FALSE,
              msg |-> [kind |-> "duplicate rows",
                       count |-> Cardinality(duplicated(df.rows)), cols |-> {}]]
        ELSE [ok |-> TRUE, msg |-> NoMessage]

(***************************************************************************)
(* align_to_schema.                                                        *)
(***************************************************************************)
\* Series.astype(str): every value becomes the string str() gives for it.
astype_str(v) == StrV(v.s)

\* VARCHAR column: df[col].astype(str).replace('nan', None)
AlignVarchar(v) == IF astype_str(v) = StrV("nan") THEN None ELSE astype_str(v)

\* DOUBLE column: pd.to_numeric(df[col], errors='coerce')
NumericStrings == {"1", "10", "20", "1.5"}

\* The numeric strings that stand for whole numbers.
IntegralStrings == {"1", "10", "20"}

\* AlignDouble with a fault: a value that is no number is passed through.
AlignDouble_Keeps(v) == IF ~isnull(v) /\ v.s \in NumericStrings THEN NumV(v.s) ELSE v

AlignDouble(v) == IF ~isnull(v) /\ v.s \in NumericStrings THEN NumV(v.s) ELSE NaN

AlignRow(r) ==
    [Site |-> AlignVarchar(r.Site),
     Month |-> AlignVarchar(r.Month),
     Actual_Revenue_INR |-> AlignDouble(r.Actual_Revenue_INR)]

align_to_schema(df) ==
    [columns |-> SchemaColumns,
     rows |-> [i \in DOMAIN df.rows |-> AlignRow(df.rows[i])]]

(***************************************************************************)
(* align_to_schema on a table with any set of columns.  Here a row is a    *)
(* function from the column names of its table to cell values, and the     *)
(* result lists its columns in order.  align_to_schema above is this       *)
(* function on the three columns the ingestion model follows.              *)
(***************************************************************************)
SchemaType ==
    [c \in SchemaColumns |->
        IF c = "CY" THEN "INTEGER"
        ELSE IF c \in {"Site", "Connectivity", "Technology", "Month", "QCA"}
        THEN "VARCHAR" ELSE "DOUBLE"]

\* INTEGER column: pd.to_numeric(df[col], errors='coerce').astype('Int64').
\* A value that is not numeric becomes <NA>; the cast of a number that is
\* not whole raises TypeError (CastRaises).
AlignInteger(v) ==
    IF ~isnull(v) /\ v.s \in IntegralStrings THEN IntV(v.s)
    ELSE [k |-> "null", s |-> "<NA>"]

CastRaises(v) == ~isnull(v) /\ v.s \in NumericStrings \ IntegralStrings

AlignCell(dtype, v) ==
    IF dtype = "DOUBLE" THEN AlignDouble(v)
    ELSE IF dtype = "INTEGER" THEN AlignInteger(v)
    ELSE AlignVarchar(v)

\* aligned[col] = series: a frame that has no rows yet takes the rows of the
\* series, and the columns it already has are null in them.
SetSeries(aligned, col, series) ==
    [columns |-> Append(aligned.columns, col),
     rows |-> IF aligned.rows = <<>>
              THEN [i \in DOMAIN series |->
                       [c \in Range(aligned.columns) \cup {col} |->
                           IF c = col THEN series[i] ELSE NaN]]
              ELSE [i \in DOMAIN aligned.rows |->
                       aligned.rows[i] @@ (col :> series[i])]]

\* SetScalar with a fault: the column is not added.
SetScalar_Skips(aligned, col, value) == aligned

\* aligned[col] = None: the scalar fills the rows the frame has.
SetScalar(aligned, col, value) ==
    [columns |-> Append(aligned.columns, col),
     rows |-> [i \in DOMAIN aligned.rows |-> aligned.rows[i] @@ (col :> value)]]

RECURSIVE AlignFrom(_, _, _)
\* for col, dtype in SCHEMA_DEFINITION.items(): ... , from the i-th column on
AlignFrom(df, i, aligned) ==
    IF i > Len(SCHEMA_DEFINITION) THEN aligned
    ELSE LET col == SCHEMA_DEFINITION[i]
         IN  AlignFrom(df, i + 1,
                 IF col \in df.columns
                 THEN SetSeries(aligned, col,
                          [j \in DOMAIN df.rows |->
                              AlignCell(SchemaType[col], df.rows[j][col])])
                 ELSE SetScalar(aligned, col, None))

\* align_to_schema(df): the frame it returns, or raised when a cast raises.
AlignFrame(df) ==
    IF \E j \in DOMAIN df.rows, c \in df.columns \cap SchemaColumns :
           SchemaType[c] = "INTEGER" /\ CastRaises(df.rows[j][c])
    THEN [raised |-> TRUE, columns |-> <<>>, rows |-> <<>>]
    ELSE [raised |-> FALSE] @@ AlignFrom(df, 1, [columns |-> <<>>, rows |-> <<>>])

(***************************************************************************)
(* The table dsm_data is a bag of rows (an SQL table has no row order and  *)
(* may hold equal rows).  A VARCHAR cell is StrV(..) or the SQL NULL,      *)
(* which is None: fetchdf() hands an SQL NULL of a VARCHAR column to       *)
(* pandas as None.  DuckDB compares the columns of (Site, Month) IN (...)  *)
(* one by one with =, and UNIQUE treats NULLs as distinct.                 *)
(***************************************************************************)
\* SQL equality of two cells as a WHERE or a UNIQUE index sees it: true
\* only of two equal non-NULL values.
SqlEq(a, b) == ~isnull(a) /\ ~isnull(b) /\ a = b

SqlKeyEq(r, u) == SqlEq(r.Site, u.Site) /\ SqlEq(r.Month, u.Month)

\* DELETE FROM dsm_data WHERE (Site, Month) IN (SELECT Site, Month FROM upload)
DeleteIn(table, upload) ==
    LET kept == {r \in DOMAIN table : ~(\E i \in DOMAIN upload : SqlKeyEq(r, upload[i]))}
    IN  [r \in kept |-> table[r]]

\* UniqueViolation with a fault: the table has no UNIQUE constraint.
UniqueViolation_Off(table, rows) == FALSE

\* UNIQUE(Site, Month) as the INSERT checks it: a row to insert conflicts
\* with a row of the table or with another row of the same statement; a key
\* with a NULL in it conflicts with nothing.
UniqueViolation(table, rows) ==
    \E i \in DOMAIN rows :
        \/ \E r \in DOMAIN table : SqlKeyEq(r, rows[i])
        \/ \E j \in DOMAIN rows : j # i /\ SqlKeyEq(rows[j], rows[i])

\* INSERT INTO dsm_data (...) SELECT ... FROM rows, when it succeeds.
InsertRows(table, rows) == table (+) SeqToBag(rows)

(***************************************************************************)
(* detect_duplicates: (existing_rows, new_rows).                           *)
(***************************************************************************)
\* df[UNIQUE_KEY].astype(str).agg('||'.join, axis=1)
merge_key(r) == astype_str(r.Site).s \o "||" \o astype_str(r.Month).s

detect_duplicates(df, table) ==
    LET existing_keys == {merge_key(r) : r \in DOMAIN table}
        existing_mask(r) == merge_key(r) \in existing_keys
        not_existing_mask(r) == ~existing_mask(r)
    IN  IF DOMAIN table = {}
        THEN [existing |-> <<>>, new |-> df.rows]
        ELSE [existing |-> SelectSeq(df.rows, existing_mask),
              new |-> SelectSeq(df.rows, not_existing_mask)]

\* The DataFrame object that was passed to detect_duplicates, after the call.
\* On an empty table the function returns before it touches df; otherwise
\* line 149, df['_merge_key'] = ..., assigns a column to df itself (only the
\* two results are copies without that column).
detect_duplicates_df(df, table) ==
    IF DOMAIN table = {}
    THEN df
    ELSE [columns |-> df.columns \cup {"_merge_key"},
          rows |-> [i \in DOMAIN df.rows |->
                       df.rows[i] @@ ("_merge_key" :> StrV(merge_key(df.rows[i])))]]

(***************************************************************************)
(* enrich_dsm_data (src/data/mapping_loader.py).  mapping_df is what       *)
(* load_site_mapping() read from data/site_mapping.csv.  Tables are as in  *)
(* AlignFrame: a set of columns and rows that are functions on it.         *)
(***************************************************************************)
mapping_columns ==
    {"Connectivity", "Plant_AC_Capacity", "PPA_Rate", "Technology", "QCA",
     "Power_Sale_Category", "State", "State_Code", "Site_Name"}

\* The join condition of DataFrame.merge on one key column: equal values,
\* and a null key matches a null key.
MergeKeyEq(a, b) == a = b \/ (isnull(a) /\ isnull(b))

\* rows.drop_duplicates(subset=['Site']): the first row of every Site.
DropDuplicateSites(rows) ==
    SelectSeq([i \in DOMAIN rows |->
                  [row |-> rows[i],
                   first |-> \A j \in 1..(i - 1) :
                                ~MergeKeyEq(rows[j]["Site"], rows[i]["Site"])]],
              LAMBDA x : x.first)

\* df.merge(mapping_subset, on='Site', how='left'): the rows of df in their
\* order, each with the columns to_add of its mapping row, NaN without one.
LeftMerge(df, subset, to_add) ==
    [columns |-> df.columns \cup to_add,
     rows |-> [i \in DOMAIN df.rows |->
        LET hits == {k \in DOMAIN subset :
                        MergeKeyEq(subset[k].row["Site"], df.rows[i]["Site"])}
        IN  [c \in df.columns \cup to_add |->
                IF c \in df.columns THEN df.rows[i][c]
                ELSE IF hits = {} THEN NaN
                ELSE subset[CHOOSE k \in hits : TRUE].row[c]]]]

\* enrich_dsm_data with a fault: every mapping column is taken from the
\* mapping, also where df has the column.
enrich_dsm_data_Overwrites(df, mapping_df) ==
    LET to_add == mapping_columns \cap mapping_df.columns
        wide == LeftMerge([columns |-> df.columns \ to_add,
                           rows |-> [i \in DOMAIN df.rows |->
                                        [c \in df.columns \ to_add |-> df.rows[i][c]]]],
                          DropDuplicateSites(mapping_df.rows), to_add)
    IN  IF mapping_df.rows = <<>> \/ "Site" \notin df.columns THEN df ELSE wide

enrich_dsm_data(df, mapping_df) ==
    LET columns_to_add ==
            {c \in mapping_columns : c \in mapping_df.columns /\ c \notin df.columns}
    IN  IF mapping_df.rows = <<>> \/ "Site" \notin df.columns THEN df
        ELSE IF columns_to_add = {} THEN df
        ELSE LeftMerge(df, DropDuplicateSites(mapping_df.rows), columns_to_add)

(***************************************************************************)
(* The header mapping of src/utils/column_mapper.py.                       *)
(***************************************************************************)
\* The headers of the model's uploads.
Headers ==
    {"Site", "Site Name", "Month", "Plant Type", "Technology", "Revenue (INR)",
     "Loss %", "QCA", "Remarks", "REMARKS", "Notes"}

\* normalize(col): strip, lower, and " ", "(", ")", "%", "_", "-", "." removed
normalize(col) ==
    CASE col = "Site" -> "site"
      [] col = "Site Name" -> "sitename"
      [] col = "Month" -> "month"
      [] col = "Plant Type" -> "planttype"
      [] col = "Technology" -> "technology"
      [] col = "Revenue (INR)" -> "revenueinr"
      [] col = "Loss %" -> "loss"
      [] col = "QCA" -> "qca"
      [] col = "Remarks" -> "remarks"
      [] col = "REMARKS" -> "remarks"
      [] col = "Notes" -> "notes"

COLUMN_MAP ==
    [k \in {"site", "sitename", "location", "plant"} |-> "Site"]
    @@ [k \in {"connectivity", "connection", "gridconnection"} |-> "Connectivity"]
    @@ [k \in {"technology", "tech", "type", "planttype"} |-> "Technology"]
    @@ [k \in {"cy", "calendaryear", "year"} |-> "CY"]
    @@ [k \in {"month", "monthyear", "period", "date"} |-> "Month"]
    @@ [k \in {"measuredenergykwh", "generationkwh", "energykwh", "generation",
               "energygeneration", "kwh"} |-> "Measured_Energy_kWh"]
    @@ [k \in {"plantcapacity", "plantrcapacity", "capacity", "installedcapacity",
               "plantcapacitymw"} |-> "Plant_Capacity"]
    @@ [k \in {"pparate", "rate", "tariff", "ppatariff"} |-> "PPA_Rate"]
    @@ [k \in {"actualrevenueinr", "revenueinr", "revenue", "actualrevenue",
               "totalrevenue"} |-> "Actual_Revenue_INR"]
    @@ [k \in {"totalpenaltyinr", "dsmpenaltyinr", "penalty", "dsmpenalty",
               "penaltyinr"} |-> "Total_Penalty_INR"]
    @@ [k \in {"commercialloss", "commercialloss%", "loss", "loss%", "losspercent",
               "closs"} |-> "Commercial_Loss"]
    @@ [k \in {"qca", "buyer", "customer", "offtaker"} |-> "QCA"]

\* standardize_columns, STEP 1: the column names after df.rename(rename_map)
rename_columns(columns) ==
    [i \in DOMAIN columns |->
        IF normalize(columns[i]) \in DOMAIN COLUMN_MAP
        THEN COLUMN_MAP[normalize(columns[i])]
        ELSE columns[i]]

\* The columns STEP 5 of standardize_columns passes to pd.to_numeric.
numeric_columns ==
    {"Measured_Energy_kWh", "Plant_Capacity", "PPA_Rate", "Actual_Revenue_INR",
     "Total_Penalty_INR", "Commercial_Loss", "CY"}

\* standardize_columns(df) on the columns of df: column i of the result has
\* the name df.rename gave it and the values of raw column i (values |-> i).
\* df.rename merges nothing, so two raw columns with one canonical name are
\* both in the frame, and df[name] is then a DataFrame, not a Series: STEP 2
\* (.str on it), STEP 3 and STEP 4 (apply hands clean_qca and parse_month a
\* whole column, whose truth value is undefined) and STEP 5 (pd.to_numeric)
\* raise on it.  A name no step reads keeps both its columns.
standardize_columns(columns) ==
    LET renamed == rename_columns(columns)
        twice(c) == \E i, j \in DOMAIN renamed :
                        i # j /\ renamed[i] = c /\ renamed[j] = c
    IN  IF \E c \in {"Site", "QCA", "Month"} \cup numeric_columns : twice(c)
        THEN [raised |-> TRUE, columns |-> <<>>]
        ELSE [raised |-> FALSE,
              columns |-> [i \in DOMAIN renamed |->
                              [name |-> renamed[i], values |-> i]]]

\* normalized_input = {normalize(col): col for col in df.columns}: a key is
\* at the place of its first header and has its last header as value.
normalized_input(columns) ==
    LET first == SelectSeq([i \in DOMAIN columns |-> i],
                           LAMBDA i : \A j \in 1..(i - 1) :
                                        normalize(columns[j]) # normalize(columns[i]))
        last(k) == CHOOSE i \in DOMAIN columns :
                       /\ normalize(columns[i]) = k
                       /\ \A j \in DOMAIN columns :
                             normalize(columns[j]) = k => j <= i
    IN  [n \in DOMAIN first |->
            [norm_col |-> normalize(columns[first[n]]),
             orig_col |-> columns[last(normalize(columns[first[n]]))]]]

\* get_mapping_report(df); a matched entry "orig -> canonical" is kept as a pair
get_mapping_report(columns) ==
    LET items == normalized_input(columns)
        in_map(x) == x.norm_col \in DOMAIN COLUMN_MAP
        not_in_map(x) == ~in_map(x)
        matched_items == SelectSeq(items, in_map)
        unmatched_items == SelectSeq(items, not_in_map)
        expected_canonical == {COLUMN_MAP[k] : k \in DOMAIN COLUMN_MAP}
        mapped_canonical == {COLUMN_MAP[matched_items[n].norm_col] :
                                n \in DOMAIN matched_items}
    IN  [matched |-> [n \in DOMAIN matched_items |->
                         <<matched_items[n].orig_col,
                           COLUMN_MAP[matched_items[n].norm_col]>>],
         unmatched |-> [n \in DOMAIN unmatched_items |-> unmatched_items[n].orig_col],
         missing |-> expected_canonical \ mapped_canonical]

(***************************************************************************)
(* The value cleaning of standardize_columns (src/utils/column_mapper.py). *)
(* The string methods are given by their values on the strings the model   *)
(* uses: every string of the model that a method changes is listed.        *)
(***************************************************************************)
\* str.strip()
Strip(s) ==
    CASE s = " Washi 2 " -> "Washi 2"
      [] s = " plant a" -> "plant a"
      [] s = " nan " -> "nan"
      [] s = "  " -> ""
      [] s = " RECONNECT " -> "RECONNECT"
      [] OTHER -> s

\* str.lower()
Lower(s) ==
    CASE s = "Washi 2" -> "washi 2"
      [] s = " Washi 2 " -> " washi 2 "
      [] s = "WASHI" -> "washi"
      [] s = "TX_12" -> "tx_12"
      [] s = "Plant A" -> "plant a"
      [] s = "PLANT A" -> "plant a"
      [] s = "BHEEMSHAKTI" -> "bheemshakti"
      [] s = "NAN" -> "nan"
      [] s = "Nan" -> "nan"
      [] s = "NONE" -> "none"
      [] s = "None" -> "none"
      [] s = "RECONNECT" -> "reconnect"
      [] s = " RECONNECT " -> " reconnect "
      [] s = "Reconnect" -> "reconnect"
      [] s = "Climate Connect" -> "climate connect"
      [] s = "Unilink" -> "unilink"
      [] s = "Abc Power" -> "abc power"
      [] s = "ABC POWER" -> "abc power"
      [] OTHER -> s

\* str.upper()
Upper(s) ==
    CASE s = "washi" -> "WASHI"
      [] s = "tx_12" -> "TX_12"
      [] s = "plant a" -> "PLANT A"
      [] s = "bheemshakti" -> "BHEEMSHAKTI"
      [] s = "nan" -> "NAN"
      [] s = "none" -> "NONE"
      [] OTHER -> s

\* str.title()
Title(s) ==
    CASE s = "abc power" -> "Abc Power"
      [] s = "ABC POWER" -> "Abc Power"
      [] s = "nan" -> "Nan"
      [] s = "NAN" -> "Nan"
      [] s = "none" -> "None"
      [] OTHER -> s

SITE_ALIASES ==
    [k \in {"washi1", "washi2", "washi 1", "washi 2", "tx 12", "tx12", "tx-12",
            "bheemshakti", "bheem shakti"} |->
        IF k \in {"washi1", "washi2", "washi 1", "washi 2"} THEN "WASHI"
        ELSE IF k \in {"tx 12", "tx12", "tx-12"} THEN "TX_12"
        ELSE "BHEEMSHAKTI"]

QCA_ALIASES ==
    [k \in {"cliamte connect", "climate connect", "climateconnect", "reconnect",
            "re connect", "re-connect", "manikaran", "unilink", "uni link",
            "uni-link"} |->
        IF k \in {"cliamte connect", "climate connect", "climateconnect"}
        THEN "Climate Connect"
        ELSE IF k \in {"reconnect", "re connect", "re-connect"} THEN "Reconnect"
        ELSE IF k = "manikaran" THEN "Manikaran"
        ELSE "Unilink"]

\* Series.replace(aliases): a value that is a key is replaced by its alias.
ReplaceAlias(aliases, s) == IF s \in DOMAIN aliases THEN aliases[s] ELSE s

\* df["Site"].astype(str).str.strip().str.lower().replace(SITE_ALIASES)
\*     .str.upper().replace("NAN", None), on one cell
clean_site(val) ==
    LET cleaned == Upper(ReplaceAlias(SITE_ALIASES, Lower(Strip(astype_str(val).s))))
    IN  IF cleaned = "NAN" THEN None ELSE StrV(cleaned)

\* clean_qca(val), on one cell that is null or a string
clean_qca(val) ==
    IF isnull(val) \/ Strip(val.s) = "" \/ Lower(val.s) = "nan" THEN None
    ELSE IF Lower(Strip(val.s)) \in DOMAIN QCA_ALIASES
    THEN StrV(QCA_ALIASES[Lower(Strip(val.s))])
    ELSE StrV(Title(Strip(val.s)))

(***************************************************************************)
(* standardize_month (src/utils/column_mapper.py).  A Month cell is kept   *)
(* by its form and its parts: "Mon-YY" is a month abbreviation and a       *)
(* two-digit year ("Jan-25"), "Mon-YYYY" has a four-digit year, "ISO" is   *)
(* year-month-day ("2025-01-15"), "text" is not a date, "null" is NaN.     *)
(* A parsed date is [nat, year, month, day]; nat marks NaT.                *)
(***************************************************************************)
NaT == [nat |-> TRUE, year |-> 0, month |-> 0, day |-> 0]

Date(y, m, d) == [nat |-> FALSE, year |-> y, month |-> m, day |-> d]

\* %b: the month of an abbreviation
MonthNumber ==
    [a \in {"Jan", "Feb", "Mar", "Apr", "May", "Jun", "Jul", "Aug", "Sep", "Oct",
            "Nov", "Dec"} |->
        CASE a = "Jan" -> 1 [] a = "Feb" -> 2 [] a = "Mar" -> 3 [] a = "Apr" -> 4
          [] a = "May" -> 5 [] a = "Jun" -> 6 [] a = "Jul" -> 7 [] a = "Aug" -> 8
          [] a = "Sep" -> 9 [] a = "Oct" -> 10 [] a = "Nov" -> 11 [] a = "Dec" -> 12]

\* The year the date parser behind pd.to_datetime gives a two-digit year:
\* the year with these two digits within [-50, +49] of the current year.
ConvertYear(yy, today_year) ==
    LET year == yy + (today_year \div 100) * 100
    IN  IF year >= today_year + 50 THEN year - 100
        ELSE IF year < today_year - 50 THEN year + 100
        ELSE year

\* pd.to_datetime(val_str, errors='coerce') (line 266).  In "Jan-25" a number
\* up to 31 is read as the day of the month: the string has no year, the
\* date is out of the bounds of a Timestamp and the result is NaT.  A number
\* above 31 is read as a two-digit year.
to_datetime_auto(val, today_year) ==
    CASE val.form = "Mon-YY" ->
            IF val.year <= 31 THEN NaT
            ELSE Date(ConvertYear(val.year, today_year), MonthNumber[val.abbr], 1)
      [] val.form = "Mon-YYYY" -> Date(val.year, MonthNumber[val.abbr], 1)
      [] val.form = "ISO" -> Date(val.year, val.month, val.day)
      [] OTHER -> NaT

\* parsed.strftime('%Y-%m-01')
FirstOfMonth(parsed) == Date(parsed.year, parsed.month, 1)

\* parse_month(val): the date of the string it returns, NaT for None
parse_month(val, today_year) ==
    IF val.form = "null" THEN NaT
    ELSE IF ~to_datetime_auto(val, today_year).nat
    THEN FirstOfMonth(to_datetime_auto(val, today_year))
    ELSE IF val.form = "Mon-YY"
    THEN FirstOfMonth(Date(IF val.year < 50 THEN 2000 + val.year ELSE 1900 + val.year,
                           MonthNumber[val.abbr], 1))
    ELSE NaT

(***************************************************************************)
(* log_ingestion: one row appended to ingestion_logs; log_id is nextval of *)
(* log_id_seq.  timestamp and filename are not modelled.                   *)
(***************************************************************************)
log_ingestion_Overwrites(logs, inserted, updated, skipped, status, error) ==
    <<[log_id |-> Len(logs) + 1,
       rows_inserted |-> inserted,
       rows_updated |-> updated,
       rows_skipped |-> skipped,
       status |-> status,
       error_message |-> error]>>

log_ingestion(logs, inserted, updated, skipped, status, error) ==
    Append(logs, [log_id |-> Len(logs) + 1,
                  rows_inserted |-> inserted,
                  rows_updated |-> updated,
                  rows_skipped |-> skipped,
                  status |-> status,
                  error_message |-> error])

(***************************************************************************)
(* insert_dsm_data.  fault names the statement of this call that the       *)
(* storage engine fails with an I/O error ("none", "delete" or "insert");  *)
(* apart from that an INSERT fails when it violates UNIQUE(Site, Month).   *)
(* The connection is in autocommit mode: every con.execute is committed on *)
(* its own, and a failed statement changes nothing.                        *)
(***************************************************************************)
InitialStats(df) == [inserted |-> 0, updated |-> 0, skipped |-> 0, total |-> Len(df.rows)]

\* str(e) of the ValueError raised at line 222
ValidationFailed(msg) == [msg EXCEPT !.kind = "Validation failed: " \o msg.kind]

ConstraintError == [kind |-> "Constraint Error: Duplicate key", count |-> 0, cols |-> {}]
IOError == [kind |-> "IO Error", count |-> 0, cols |-> {}]

\* ExceptHandler with a fault: the exception is passed on without a log row.
ExceptHandler_Silent(df, table, logs, e) ==
    [table |-> table, logs |-> logs, raised |-> TRUE, stats |-> InitialStats(df)]

\* except Exception as e: log_ingestion(con, filename, 0, 0, len(df), "FAILED", str(e)); raise
ExceptHandler(df, table, logs, e) ==
    [table |-> table,
     logs |-> log_ingestion(logs, 0, 0, Len(df.rows), "FAILED", e),
     raised |-> TRUE,
     stats |-> InitialStats(df)]

\* Log successful ingestion, return stats
Success(table, logs, stats) ==
    [table |-> table,
     logs |-> log_ingestion(logs, stats.inserted, stats.updated, stats.skipped,
                            "SUCCESS", NoMessage),
     raised |-> FALSE,
     stats |-> stats]

\* The error of the INSERT statement, NoMessage when it succeeds.
InsertError(table, rows, fault) ==
    IF fault = "insert" THEN IOError
    ELSE IF UniqueViolation(table, rows) THEN ConstraintError
    ELSE NoMessage

\* lines 230-255: MERGE strategy, delete existing then insert all
OverwriteBranch(df, df_aligned, parts, fault, table, logs) ==
    LET deleted == DeleteIn(table, df_aligned.rows)
        err == InsertError(deleted, df_aligned.rows, fault)
    IN  IF fault = "delete"
        THEN ExceptHandler(df, table, logs, IOError)
        ELSE IF err # NoMessage
        THEN ExceptHandler(df, deleted, logs, err)
        ELSE Success(InsertRows(deleted, df_aligned.rows), logs,
                     [InitialStats(df) EXCEPT !.updated = Len(parts.existing),
                                              !.inserted = Len(parts.new)])

\* SkipBranch with a fault: skipped is len(df) also when new rows are inserted.
SkipBranch_SkipsAll(df, parts, fault, table, logs) ==
    LET err == InsertError(table, parts.new, fault)
    IN  IF parts.new = <<>>
        THEN Success(table, logs, [InitialStats(df) EXCEPT !.skipped = Len(df.rows)])
        ELSE IF err # NoMessage
        THEN ExceptHandler(df, table, logs, err)
        ELSE Success(InsertRows(table, parts.new), logs,
                     [InitialStats(df) EXCEPT !.inserted = Len(parts.new),
                                              !.skipped = Len(df.rows)])

\* lines 257-273: insert only new rows (skip duplicates)
SkipBranch(df, parts, fault, table, logs) ==
    LET err == InsertError(table, parts.new, fault)
    IN  IF parts.new = <<>>
        THEN Success(table, logs, [InitialStats(df) EXCEPT !.skipped = Len(df.rows)])
        ELSE IF err # NoMessage
        THEN ExceptHandler(df, table, logs, err)
        ELSE Success(InsertRows(table, parts.new), logs,
                     [InitialStats(df) EXCEPT !.inserted = Len(parts.new),
                                              !.skipped = Len(parts.existing)])

\* RunInsert with a fault: the overwrite branch is taken whenever rows exist,
\* whatever overwrite_duplicates says.
RunInsert_IgnoresFlag(df, overwrite_duplicates, fault, table, logs) ==
    LET v == validate_dataframe(df)
        df_aligned == align_to_schema(df)
        parts == detect_duplicates(df_aligned, table)
    IN  IF ~v.ok
        THEN ExceptHandler(df, table,
                           log_ingestion(logs, 0, 0, Len(df.rows), "FAILED", v.msg),
                           ValidationFailed(v.msg))
        ELSE IF parts.existing # <<>>
        THEN OverwriteBranch(df, df_aligned, parts, fault, table, logs)
        ELSE SkipBranch(df, parts, fault, table, logs)

\* RunInsert with a fault: the batch is written first and validated afterwards.
RunInsert_ValidatesLast(df, overwrite_duplicates, fault, table, logs) ==
    LET v == validate_dataframe(df)
        df_aligned == align_to_schema(df)
        parts == detect_duplicates(df_aligned, table)
        written == IF overwrite_duplicates /\ parts.existing # <<>>
                   THEN OverwriteBranch(df, df_aligned, parts, fault, table, logs)
                   ELSE SkipBranch(df, parts, fault, table, logs)
    IN  IF ~v.ok
        THEN ExceptHandler(df, written.table,
                           log_ingestion(logs, 0, 0, Len(df.rows), "FAILED", v.msg),
                           ValidationFailed(v.msg))
        ELSE written

\* The whole call: what it leaves in dsm_data and ingestion_logs, whether it
\* raised, and the stats it returns.
RunInsert(df, overwrite_duplicates, fault, table, logs) ==
    LET v == validate_dataframe(df)
        df_aligned == align_to_schema(df)
        parts == detect_duplicates(df_aligned, table)
    IN  IF ~v.ok
        THEN ExceptHandler(df, table,
                           log_ingestion(logs, 0, 0, Len(df.rows), "FAILED", v.msg),
                           ValidationFailed(v.msg))
        ELSE IF overwrite_duplicates /\ parts.existing # <<>>
        THEN OverwriteBranch(df, df_aligned, parts, fault, table, logs)
        ELSE SkipBranch(df, parts, fault, table, logs)

\* The faults that can strike a call: only a statement the call executes.
Faults(df, overwrite_duplicates, table) ==
    LET parts == detect_duplicates(align_to_schema(df), table)
    IN  IF ~validate_dataframe(df).ok THEN {"none"}
        ELSE IF overwrite_duplicates /\ parts.existing # <<>>
        THEN {"none", "delete", "insert"}
        ELSE IF parts.new = <<>> THEN {"none"}
        ELSE {"none", "insert"}

(***************************************************************************)
(* The uploads the model ingests.                                          *)
(***************************************************************************)
Jan == StrV("2025-01-01")
Feb == StrV("2025-02-01")

Row(site, month, revenue) ==
    [Site |-> site, Month |-> month, Actual_Revenue_INR |-> revenue]

\* The rows uploads are made of: one key with two revenues and in two months,
\* the integer 1 beside the string "1", the string "nan", and a null in
\* either key column.
RowList ==
    <<Row(StrV("1"), Jan, NumV("10")),
      Row(StrV("1"), Jan, NumV("20")),
      Row(StrV("1"), Feb, NumV("10")),
      Row(IntV("1"), Jan, NumV("10")),
      Row(StrV("nan"), Jan, NumV("10")),
      Row(NaN, Jan, NumV("10")),
      Row(StrV("1"), None, NumV("10"))>>

\* Row sequences of up to n rows.  No step of the pipeline depends on the
\* order of the rows of a DataFrame, so they are listed up to row order.
RowSeqs(n) ==
    UNION {{[j \in 1..m |-> RowList[ix[j]]] :
                ix \in {f \in [1..m -> DOMAIN RowList] :
                            \A j \in 1..(m - 1) : f[j] <= f[j + 1]}} :
           m \in 0..n}

\* An upload has all canonical columns, or lacks two required ones; in the
\* second case validate_dataframe returns before it looks at a row, so the
\* rows count only by their number.
Uploads ==
    {[columns |-> SchemaColumns, rows |-> r] : r \in RowSeqs(MaxBatch)}
    \cup {[columns |-> SchemaColumns \ {"QCA", "Total_Penalty_INR"}, rows |-> r] :
             r \in RowSeqs(1)}

(***************************************************************************)
(* State machine.                                                          *)
(***************************************************************************)
\* call is the insert_dsm_data call that has just ended: its arguments, the
\* fault that struck it, whether it raised, the stats it built and the number
\* of ingestion_logs rows it wrote; NoCall when none has.
NoCall == [df |-> [columns |-> {}, rows |-> <<>>], overwrite_duplicates |-> FALSE,
           fault |-> "no call", raised |-> FALSE,
           stats |-> [inserted |-> 0, updated |-> 0, skipped |-> 0, total |-> 0],
           logged |-> 0]

\* fcall is the call of one of the other functions: the function, its
\* argument, whether it has returned, and then its result (for a function
\* that works on its argument in place: the argument after the call).
NoFcall == [fn |-> "none", arg |-> <<>>, done |-> FALSE, out |-> <<>>]

\* initialize_database on a fresh file: both tables empty.
\* session is one browser session of src/app.py: st.session_state (the keys
\* of the upload section), the file in the file_uploader widget, and whether
\* a run of the script is scheduled (st.rerun() was called, or a widget
\* changed).  staged_data = None is the frame without columns, and
\* duplicate_info = None is the record of two zeros.
NoFrame == [columns |-> {}, rows |-> <<>>]

SessionDefaults ==
    [session_state |-> [upload_stage |-> "idle", staged_data |-> NoFrame,
                        duplicate_info |-> [existing_count |-> 0, new_count |-> 0]],
     uploaded_file |-> NoFrame,
     rerun |-> FALSE]

\* inflight[p] is the insert_dsm_data call that caller p is in, statement by
\* statement: where it is (pc), its arguments, what its detect_duplicates
\* returned (parts) and the store that call read (seen).
Callers == {1, 2}

NoInflight ==
    [pc |-> "idle", df |-> NoFrame, overwrite_duplicates |-> FALSE,
     parts |-> [existing |-> <<>>, new |-> <<>>], seen |-> EmptyBag,
     raised |-> FALSE]

InitTables ==
    /\ inflight = [p \in Callers |-> NoInflight]
    /\ dsm_data = EmptyBag
    /\ ingestion_logs = <<>>
    /\ call = NoCall
    /\ ncalls = 0
    /\ session = SessionDefaults

Init ==
    /\ InitTables
    /\ fcall = NoFcall

insert_dsm_data(df, overwrite_duplicates, fault) ==
    LET out == RunInsert(df, overwrite_duplicates, fault, dsm_data, ingestion_logs)
    IN  /\ call = NoCall
        /\ ncalls < MaxCalls
        /\ fault \in Faults(df, overwrite_duplicates, dsm_data)
        /\ dsm_data' = out.table
        /\ ingestion_logs' = out.logs
        /\ call' = [df |-> df, overwrite_duplicates |-> overwrite_duplicates,
                    fault |-> fault, raised |-> out.raised, stats |-> out.stats,
                    logged |-> Len(out.logs) - Len(ingestion_logs)]
        /\ ncalls' = ncalls + 1
        /\ UNCHANGED <<fcall, session, inflight>>

\* The caller has the stats (or the exception) of the call and goes on: the
\* next ingestion starts from the tables alone.
Return ==
    /\ call # NoCall
    /\ call' = NoCall
    /\ UNCHANGED <<dsm_data, ingestion_logs, ncalls, fcall, session, inflight>>

Next ==
    \/ \E df \in Uploads, overwrite_duplicates \in BOOLEAN,
          fault \in {"none", "delete", "insert"} :
            insert_dsm_data(df, overwrite_duplicates, fault)
    \/ Return

Spec == Init /\ [][Next]_vars

(***************************************************************************)
(* The same state machine on uploads whose key texts contain the separator *)
(* "||" that detect_duplicates joins the key columns with.                 *)
(***************************************************************************)
JoinRowList ==
    <<Row(StrV("A"), StrV("B||C"), NumV("10")),
      Row(StrV("A||B"), StrV("C"), NumV("10")),
      Row(StrV("A"), StrV("C"), NumV("10")),
      Row(StrV("A"), StrV("C"), NumV("20")),
      Row(StrV("A||B"), StrV("B||C"), NumV("10"))>>

JoinRowSeqs(n) ==
    UNION {{[j \in 1..m |-> JoinRowList[ix[j]]] :
                ix \in {f \in [1..m -> DOMAIN JoinRowList] :
                            \A j \in 1..(m - 1) : f[j] <= f[j + 1]}} :
           m \in 0..n}

JoinUploads == {[columns |-> SchemaColumns, rows |-> r] : r \in JoinRowSeqs(MaxBatch)}

NextJoin ==
    \/ \E df \in JoinUploads, overwrite_duplicates \in BOOLEAN,
          fault \in {"none", "delete", "insert"} :
            insert_dsm_data(df, overwrite_duplicates, fault)
    \/ Return

SpecJoin == Init /\ [][NextJoin]_vars

(***************************************************************************)
(* The same state machine on uploads whose DOUBLE column Actual_Revenue_INR *)
(* holds texts that are no numbers.                                        *)
(***************************************************************************)
CoerceRowList ==
    <<Row(StrV("1"), Jan, StrV("abc")),
      Row(StrV("1"), Jan, NumV("10")),
      Row(StrV("1"), Feb, NaN),
      Row(StrV("2"), Jan, StrV("abc")),
      Row(IntV("1"), Jan, StrV("abc"))>>

CoerceRowSeqs(n) ==
    UNION {{[j \in 1..m |-> CoerceRowList[ix[j]]] :
                ix \in {f \in [1..m -> DOMAIN CoerceRowList] :
                            \A j \in 1..(m - 1) : f[j] <= f[j + 1]}} :
           m \in 0..n}

CoerceUploads ==
    {[columns |-> SchemaColumns, rows |-> r] : r \in CoerceRowSeqs(MaxBatch)}

NextCoerce ==
    \/ \E df \in CoerceUploads, overwrite_duplicates \in BOOLEAN,
          fault \in {"none", "delete", "insert"} :
            insert_dsm_data(df, overwrite_duplicates, fault)
    \/ Return

SpecCoerce == Init /\ [][NextCoerce]_vars

(***************************************************************************)
(* A function applied once to an argument: Init draws the argument, the    *)
(* action is the call.  The tables are not touched.                        *)
(***************************************************************************)
Pending(fn, arg) == [fn |-> fn, arg |-> arg, done |-> FALSE, out |-> <<>>]

Returned(out) == [fcall EXCEPT !.done = TRUE, !.out = out]

Tables == <<dsm_data, ingestion_logs, call, ncalls, session, inflight>>

(***************************************************************************)
(* validate_dataframe on batches that may lack columns and have null and   *)
(* repeated keys at once.                                                  *)
(***************************************************************************)
ValidateColumns ==
    {SchemaColumns,
     SchemaColumns \ {"Connectivity"},
     SchemaColumns \ {"QCA"},
     SchemaColumns \ {"QCA", "Total_Penalty_INR"},
     SchemaColumns \ {"Measured_Energy_kWh", "Actual_Revenue_INR", "Technology"}}

ValidateUploads ==
    {[columns |-> c, rows |-> r] : c \in ValidateColumns, r \in RowSeqs(MaxBatch)}

InitValidate ==
    /\ InitTables
    /\ fcall \in {Pending("validate_dataframe", df) : df \in ValidateUploads}

CallValidate ==
    /\ fcall.fn = "validate_dataframe" /\ ~fcall.done
    /\ fcall' = Returned(validate_dataframe(fcall.arg))
    /\ UNCHANGED Tables

SpecValidate == InitValidate /\ [][CallValidate]_vars

(***************************************************************************)
(* align_to_schema on tables with canonical columns of each type, lacking  *)
(* others, and with a column that is not canonical.                        *)
(***************************************************************************)
AlignColumns == {"Site", "CY", "Actual_Revenue_INR", "QCA", "Remarks"}

AlignRowList ==
    <<[Site |-> StrV("1"), CY |-> IntV("1"), Actual_Revenue_INR |-> NumV("10"),
       QCA |-> StrV("1"), Remarks |-> StrV("x")],
      [Site |-> StrV("nan"), CY |-> StrV("x"), Actual_Revenue_INR |-> StrV("x"),
       QCA |-> None, Remarks |-> NaN],
      [Site |-> IntV("1"), CY |-> NaN, Actual_Revenue_INR |-> NumV("1.5"),
       QCA |-> NaN, Remarks |-> StrV("x")],
      [Site |-> StrV("1"), CY |-> NumV("1.5"), Actual_Revenue_INR |-> NaN,
       QCA |-> StrV("1"), Remarks |-> StrV("x")]>>

\* The rows of AlignRowList, up to MaxBatch of them, as rows of a table with
\* the columns cols.
AlignRowSeqs(cols) ==
    UNION {{[j \in 1..m |-> [c \in cols |-> AlignRowList[ix[j]][c]]] :
                ix \in {f \in [1..m -> DOMAIN AlignRowList] :
                            \A j \in 1..(m - 1) : f[j] <= f[j + 1]}} :
           m \in 0..MaxBatch}

AlignInputs ==
    UNION {{[columns |-> cols, rows |-> r] : r \in AlignRowSeqs(cols)} :
           cols \in SUBSET AlignColumns}

InitAlign ==
    /\ InitTables
    /\ fcall \in {Pending("align_to_schema", df) : df \in AlignInputs}

CallAlign ==
    /\ fcall.fn = "align_to_schema" /\ ~fcall.done
    /\ fcall' = Returned(AlignFrame(fcall.arg))
    /\ UNCHANGED Tables

SpecAlign == InitAlign /\ [][CallAlign]_vars

(***************************************************************************)
(* enrich_dsm_data on working tables that share columns with the site      *)
(* mapping, with values that differ from the mapping's.                    *)
(***************************************************************************)
EnrichColumns ==
    {{"Site", "QCA"}, {"Site"}, {"Site", "QCA", "Technology", "Month"},
     {"QCA", "Month"}, {"Site", "Technology", "State"}}

EnrichRowList ==
    <<[Site |-> StrV("WASHI"), QCA |-> StrV("Reconnect"), Technology |-> StrV("Wind"),
       State |-> StrV("MH"), Month |-> Jan],
      [Site |-> StrV("WASHI"), QCA |-> None, Technology |-> StrV("Solar"),
       State |-> NaN, Month |-> Feb],
      [Site |-> StrV("TX_12"), QCA |-> StrV("Unilink"), Technology |-> NaN,
       State |-> StrV("KA"), Month |-> Jan],
      [Site |-> NaN, QCA |-> StrV("Manikaran"), Technology |-> StrV("Solar"),
       State |-> StrV("MH"), Month |-> Jan]>>

EnrichRowSeqs(cols) ==
    UNION {{[j \in 1..m |-> [c \in cols |-> EnrichRowList[ix[j]][c]]] :
                ix \in {f \in [1..m -> DOMAIN EnrichRowList] :
                            \A j \in 1..(m - 1) : f[j] <= f[j + 1]}} :
           m \in 0..MaxBatch}

\* The rows of data/site_mapping.csv; WASHI is listed twice.
MappingRowList ==
    <<[Site |-> StrV("WASHI"), QCA |-> StrV("Climate Connect"),
       Technology |-> StrV("Solar"), State |-> StrV("MH")],
      [Site |-> StrV("WASHI"), QCA |-> StrV("Reconnect"),
       Technology |-> StrV("Wind"), State |-> StrV("GJ")],
      [Site |-> NaN, QCA |-> StrV("Unilink"),
       Technology |-> StrV("Hybrid"), State |-> StrV("RJ")]>>

MappingTables ==
    {[columns |-> cols, rows |-> [j \in 1..n |-> [c \in cols |-> MappingRowList[j][c]]]] :
        cols \in {{"Site", "QCA", "Technology", "State"}, {"Site", "QCA"},
                  {"Site", "State"}},
        n \in 0..Len(MappingRowList)}

EnrichInputs ==
    UNION {{[columns |-> cols, rows |-> r] : r \in EnrichRowSeqs(cols)} :
           cols \in EnrichColumns}

InitEnrich ==
    /\ InitTables
    /\ fcall \in {Pending("enrich_dsm_data", [df |-> df, mapping_df |-> m]) :
                      df \in EnrichInputs, m \in MappingTables}

CallEnrich ==
    /\ fcall.fn = "enrich_dsm_data" /\ ~fcall.done
    /\ fcall' = Returned(enrich_dsm_data(fcall.arg.df, fcall.arg.mapping_df))
    /\ UNCHANGED Tables

SpecEnrich == InitEnrich /\ [][CallEnrich]_vars

(***************************************************************************)
(* The cleaning of a Site cell and of a QCA cell, applied to a raw value   *)
(* and then once more to its own output.                                   *)
(***************************************************************************)
SiteCells ==
    {StrV(x) : x \in {"washi 1", " Washi 2 ", "WASHI", "washi", "tx-12", "tx12",
                      "TX_12", "tx_12", "Plant A", " plant a", "PLANT A",
                      "bheem shakti", "BHEEMSHAKTI", "nan", " nan ", "NAN", "",
                      "  ", "none", "NONE"}}
    \cup {NaN, None, IntV("1")}

QcaCells ==
    {StrV(x) : x \in {"climate connect", "Climate Connect", "cliamte connect",
                      "climateconnect", " RECONNECT ", "Reconnect", "re-connect",
                      "uni-link", "Unilink", "manikaran", "abc power",
                      "ABC POWER", "Abc Power", "nan", " nan ", "Nan", "NAN", "",
                      "  "}}
    \cup {NaN, None}

Clean(column, val) == IF column = "Site" THEN clean_site(val) ELSE clean_qca(val)

InitClean ==
    /\ InitTables
    /\ fcall \in {Pending("standardize_columns", [column |-> "Site", val |-> v]) :
                      v \in SiteCells}
               \cup {Pending("standardize_columns", [column |-> "QCA", val |-> v]) :
                        v \in QcaCells}

\* standardize_columns on the raw upload
CallClean ==
    /\ fcall.fn = "standardize_columns" /\ ~fcall.done
    /\ fcall' = Returned(<<Clean(fcall.arg.column, fcall.arg.val)>>)
    /\ UNCHANGED Tables

\* standardize_columns on what standardize_columns returned
CallCleanAgain ==
    /\ fcall.fn = "standardize_columns" /\ fcall.done /\ Len(fcall.out) = 1
    /\ fcall' = Returned(Append(fcall.out, Clean(fcall.arg.column, fcall.out[1])))
    /\ UNCHANGED Tables

SpecClean == InitClean /\ [][CallClean \/ CallCleanAgain]_vars

(***************************************************************************)
(* standardize_month on one Month cell; today_year is the year of the day  *)
(* the upload is parsed on.                                                *)
(***************************************************************************)
MonthCells ==
    {[form |-> "Mon-YY", abbr |-> a, year |-> yy, month |-> 0, day |-> 0] :
        a \in {"Jan", "Feb", "Dec"}, yy \in 0..99}
    \cup {[form |-> "Mon-YYYY", abbr |-> a, year |-> y, month |-> 0, day |-> 0] :
             a \in {"Jan", "Dec"}, y \in {1955, 2025}}
    \cup {[form |-> "ISO", abbr |-> "", year |-> y, month |-> m, day |-> d] :
             y \in {1955, 2025}, m \in {1, 12}, d \in {1, 15}}
    \cup {[form |-> f, abbr |-> "", year |-> 0, month |-> 0, day |-> 0] :
             f \in {"text", "null"}}

TodayYears == {2025, 2026, 2027}

InitMonth ==
    /\ InitTables
    /\ fcall \in {Pending("standardize_month", [val |-> v, today_year |-> t]) :
                      v \in MonthCells, t \in TodayYears}

CallMonth ==
    /\ fcall.fn = "standardize_month" /\ ~fcall.done
    /\ fcall' = Returned(parse_month(fcall.arg.val, fcall.arg.today_year))
    /\ UNCHANGED Tables

SpecMonth == InitMonth /\ [][CallMonth]_vars

(***************************************************************************)
(* The headers of an upload through standardize_columns,                   *)
(* get_mapping_report and align_to_schema.                                 *)
(***************************************************************************)
MaxHeaders == 2

\* The header rows of the uploads: up to MaxHeaders different headers.
HeaderRows ==
    UNION {{h \in [1..n -> Headers] : \A i, j \in 1..n : i # j => h[i] # h[j]} :
           n \in 1..MaxHeaders}

InitHeaders ==
    /\ InitTables
    /\ fcall \in {Pending("get_mapping_report", h) : h \in HeaderRows}

\* df_mapped = standardize_columns(df_raw); mapping_report =
\* get_mapping_report(df_raw); and the columns align_to_schema gives df_mapped
MapHeaders ==
    /\ fcall.fn = "get_mapping_report" /\ ~fcall.done
    /\ fcall' = Returned(
          [renamed |-> rename_columns(fcall.arg),
           report |-> get_mapping_report(fcall.arg),
           aligned |-> AlignFrame([columns |-> Range(rename_columns(fcall.arg)),
                                   rows |-> <<>>]).columns])
    /\ UNCHANGED Tables

SpecHeaders == InitHeaders /\ [][MapHeaders]_vars

(***************************************************************************)
(* standardize_columns on an upload with the headers of a header row.      *)
(***************************************************************************)
InitRename ==
    /\ InitTables
    /\ fcall \in {Pending("standardize_columns", h) : h \in HeaderRows}

CallRename ==
    /\ fcall.fn = "standardize_columns" /\ ~fcall.done
    /\ fcall' = Returned(standardize_columns(fcall.arg))
    /\ UNCHANGED Tables

SpecRename == InitRename /\ [][CallRename]_vars

(***************************************************************************)
(* The upload section of src/app.py: the mapped upload df_mapped is passed *)
(* to detect_duplicates and then kept as staged_data.  The store it is     *)
(* compared with is filled by earlier ingestions.                          *)
(***************************************************************************)
StageUploads ==
    {[columns |-> SchemaColumns, rows |-> r] : r \in RowSeqs(MaxBatch) \ {<<>>}}

\* The earlier ingestions: one row each.
StoreUploads ==
    {[columns |-> SchemaColumns, rows |-> r] : r \in RowSeqs(1) \ {<<>>}}

\* existing_rows, new_rows = detect_duplicates(df_mapped); staged_data = df_mapped
StageUpload(df_mapped) ==
    /\ call = NoCall
    /\ fcall = NoFcall
    /\ fcall' = [fn |-> "detect_duplicates", arg |-> df_mapped, done |-> TRUE,
                 out |-> [parts |-> detect_duplicates(df_mapped, dsm_data),
                          staged_data |-> detect_duplicates_df(df_mapped, dsm_data)]]
    /\ UNCHANGED Tables

\* The staged upload is confirmed or cancelled: upload_stage is 'idle' again.
ClearStage ==
    /\ fcall # NoFcall
    /\ fcall' = NoFcall
    /\ UNCHANGED Tables

NextStage ==
    \/ \E df \in StoreUploads, overwrite_duplicates \in BOOLEAN :
          fcall = NoFcall /\ insert_dsm_data(df, overwrite_duplicates, "none")
    \/ Return
    \/ \E df_mapped \in StageUploads : StageUpload(df_mapped)
    \/ ClearStage

SpecStage == Init /\ [][NextStage]_vars

(***************************************************************************)
(* The upload section of src/app.py, run by run.  Streamlit runs the       *)
(* script from the top when a widget changes, when a button is pressed and *)
(* after st.rerun(); st.rerun() ends the run by an exception that is no    *)
(* Exception, so the except clause of line 225 does not catch it.  An      *)
(* exception insert_dsm_data raises ends the run where it is raised: the   *)
(* lines after the call are not executed.                                  *)
(***************************************************************************)
\* parsed.strftime('%Y-%m-01') of what parse_month gives, None for None
strftime(parsed) ==
    IF parsed.nat THEN None
    ELSE StrV(ToString(parsed.year) \o "-"
              \o (IF parsed.month < 10 THEN "0" ELSE "") \o ToString(parsed.month)
              \o "-01")

\* standardize_columns on one row of a file whose headers are canonical
standardize_row(r, today_year) ==
    [c \in DOMAIN r |->
        IF c = "Site" THEN clean_site(r[c])
        ELSE IF c = "Month" THEN strftime(parse_month(r[c], today_year))
        ELSE r[c]]

\* dropna with a fault: no row is removed.
dropna_Keeps(rows, col) == rows

\* df.dropna(subset=[col], how='any')
dropna(rows, col) == SelectSeq(rows, LAMBDA r : ~isnull(r[col]))

\* df.drop_duplicates(subset=['Site', 'Month'], keep='last')
drop_duplicates(rows) ==
    LET last == SelectSeq([i \in DOMAIN rows |-> i],
                          LAMBDA i : \A j \in DOMAIN rows :
                                       j > i => UNIQUE_KEY(rows[j]) # UNIQUE_KEY(rows[i]))
    IN  [n \in DOMAIN last |-> rows[last[n]]]

\* df_mapped of lines 179-192
map_upload(df_raw, today_year) ==
    LET cols == df_raw.columns
        mapped == [i \in DOMAIN df_raw.rows |->
                      standardize_row(df_raw.rows[i], today_year)]
        sited == IF "Site" \in cols THEN dropna(mapped, "Site") ELSE mapped
        monthed == IF "Month" \in cols THEN dropna(sited, "Month") ELSE sited
    IN  [columns |-> cols,
         rows |-> IF "Site" \in cols /\ "Month" \in cols
                  THEN drop_duplicates(monthed) ELSE monthed]

\* Whether detect_duplicates(df_mapped) of line 210 raises: with rows in the
\* store it reads df[UNIQUE_KEY], a KeyError when a key column is missing.
\* On a frame without rows the row-wise join of line 149 is a corner of
\* pandas that differs between versions: both outcomes are taken.
StageRaises(df_mapped, table) ==
    IF DOMAIN table = {} THEN {FALSE}
    ELSE IF ~({"Site", "Month"} \subseteq df_mapped.columns) THEN {TRUE}
    ELSE IF df_mapped.rows = <<>> THEN {TRUE, FALSE}
    ELSE {FALSE}

\* st.session_state after lines 210-222
staged_state(df_mapped, table) ==
    LET parts == detect_duplicates(df_mapped, table)
    IN  [upload_stage |-> IF Len(parts.existing) > 0
                          THEN "pending_confirmation" ELSE "processing",
         staged_data |-> detect_duplicates_df(df_mapped, table),
         duplicate_info |-> [existing_count |-> Len(parts.existing),
                             new_count |-> Len(parts.new)]]

\* The raw files: headers are the canonical names, one file lacks Month.
Jan2025 == [form |-> "Mon-YYYY", abbr |-> "Jan", year |-> 2025, month |-> 0, day |-> 0]
Feb2025 == [form |-> "ISO", abbr |-> "", year |-> 2025, month |-> 2, day |-> 15]
NoMonth == [form |-> "text", abbr |-> "", year |-> 0, month |-> 0, day |-> 0]

FileRowList ==
    <<Row(StrV("washi"), Jan2025, NumV("10")),
      Row(StrV("washi"), NoMonth, NumV("10")),
      Row(StrV("WASHI"), Feb2025, NumV("10")),
      Row(StrV("nan"), Jan2025, NumV("10")),
      Row(StrV("washi 1"), Jan2025, NumV("1.5"))>>

FileRowSeqs(n) ==
    UNION {{[j \in 1..m |-> FileRowList[ix[j]]] :
                ix \in {f \in [1..m -> DOMAIN FileRowList] :
                            \A j \in 1..(m - 1) : f[j] < f[j + 1]}} :
           m \in 1..n}

Files ==
    {[columns |-> SchemaColumns, rows |-> r] : r \in FileRowSeqs(MaxBatch)}
    \cup {[columns |-> SchemaColumns \ {"Month"},
           rows |-> <<[Site |-> StrV("washi"), Actual_Revenue_INR |-> NumV("10")]>>]}

\* What another session ingests meanwhile.
OtherUploads ==
    {[columns |-> SchemaColumns,
      rows |-> <<Row(StrV("WASHI"), Jan, NumV("20"))>>]}

\* The user puts a file into the file_uploader: the widget changed, a run of
\* the script is scheduled.
ChooseFile(file) ==
    /\ ncalls < MaxCalls
    /\ session.uploaded_file # file
    /\ session' = [session EXCEPT !.uploaded_file = file, !.rerun = TRUE]
    /\ UNCHANGED <<dsm_data, ingestion_logs, call, ncalls, fcall, inflight>>

\* A run with a file in the uploader and upload_stage 'idle': lines 161-227.
\* 'processing' ends the run with st.rerun(); with 'pending_confirmation'
\* the run goes on to draw the two buttons; an exception leaves 'idle'.
StageFile ==
    /\ session.uploaded_file # NoFrame
    /\ session.session_state.upload_stage = "idle"
    /\ ncalls < MaxCalls
    /\ \E today_year \in TodayYears :
          LET df_mapped == map_upload(session.uploaded_file, today_year)
          IN  \E raises \in StageRaises(df_mapped, dsm_data) :
                session' =
                    IF raises
                    THEN [session EXCEPT !.session_state.upload_stage = "idle",
                                         !.rerun = FALSE]
                    ELSE [session EXCEPT
                            !.session_state = staged_state(df_mapped, dsm_data),
                            !.rerun = (staged_state(df_mapped, dsm_data).upload_stage
                                          = "processing")]
    /\ UNCHANGED <<dsm_data, ingestion_logs, call, ncalls, fcall, inflight>>

\* insert_dsm_data(st.session_state.staged_data, ...) and the lines after it:
\* they set upload_stage = 'idle' (and call st.rerun() after a button), and
\* are reached only when the call returns.
InsertStaged(overwrite_duplicates, fault, rerun) ==
    LET df == session.session_state.staged_data
        out == RunInsert(df, overwrite_duplicates, fault, dsm_data, ingestion_logs)
    IN  /\ fault \in Faults(df, overwrite_duplicates, dsm_data)
        /\ dsm_data' = out.table
        /\ ingestion_logs' = out.logs
        /\ call' = [df |-> df, overwrite_duplicates |-> overwrite_duplicates,
                    fault |-> fault, raised |-> out.raised, stats |-> out.stats,
                    logged |-> Len(out.logs) - Len(ingestion_logs)]
        /\ ncalls' = ncalls + 1
        /\ session' = IF out.raised
                      THEN [session EXCEPT !.rerun = FALSE]
                      ELSE [session EXCEPT !.session_state.upload_stage = "idle",
                                           !.rerun = rerun]
        /\ UNCHANGED <<fcall, inflight>>

\* A run with upload_stage 'pending_confirmation' in which a button is
\* pressed: lines 236-244 and 246-254.
PressOverwrite ==
    /\ session.session_state.upload_stage = "pending_confirmation"
    /\ ncalls < MaxCalls
    /\ \E fault \in {"none", "delete", "insert"} : InsertStaged(TRUE, fault, TRUE)

PressSkip ==
    /\ session.session_state.upload_stage = "pending_confirmation"
    /\ ncalls < MaxCalls
    /\ \E fault \in {"none", "insert"} : InsertStaged(FALSE, fault, TRUE)

\* A run with upload_stage 'processing': lines 257-264.  The run st.rerun()
\* scheduled always takes place; a later one is a run the user causes.
AutoInsert ==
    /\ session.session_state.upload_stage = "processing"
    /\ session.rerun \/ ncalls < MaxCalls
    /\ \E fault \in {"none", "delete", "insert"} : InsertStaged(TRUE, fault, FALSE)

\* A scheduled run in which none of the three blocks does anything.
IdleRun ==
    /\ session.rerun
    /\ \/ session.session_state.upload_stage = "pending_confirmation"
       \/ /\ session.session_state.upload_stage = "idle"
          /\ session.uploaded_file = NoFrame
    /\ session' = [session EXCEPT !.rerun = FALSE]
    /\ UNCHANGED <<dsm_data, ingestion_logs, call, ncalls, fcall, inflight>>

\* A run of the script that no button caused.
ScriptRun == StageFile \/ AutoInsert \/ IdleRun

NextApp ==
    \/ \E file \in Files : ChooseFile(file)
    \/ StageFile
    \/ AutoInsert
    \/ IdleRun
    \/ PressOverwrite
    \/ PressSkip
    \/ \E df \in OtherUploads, overwrite_duplicates \in BOOLEAN :
          insert_dsm_data(df, overwrite_duplicates, "none")
    \/ Return

SpecApp == Init /\ [][NextApp]_vars

\* The run that st.rerun() or a changed widget scheduled takes place; runs
\* the user causes, button presses among them, need not.
SpecAppFair == SpecApp /\ WF_vars(session.rerun /\ ScriptRun)

(***************************************************************************)
(* insert_dsm_data statement by statement, for two callers on one store.   *)
(* Each con.execute is one step (the connection is in autocommit mode), so *)
(* the statements of two calls interleave: the SELECT of detect_duplicates *)
(* (line 228), the DELETE (236-242), the INSERT (248-252 or 266-270) with  *)
(* the log row that follows it.                                            *)
(***************************************************************************)
RaceUploads ==
    {[columns |-> SchemaColumns, rows |-> <<r>>] :
        r \in {Row(StrV("WASHI"), Jan, NumV("10")),
               Row(StrV("WASHI"), Jan, NumV("20")),
               Row(StrV("nan"), Jan, NumV("10"))}}

\* lines 211-228: validate, align, detect_duplicates reads the persisted keys
Detect(p, df, overwrite_duplicates) ==
    LET v == validate_dataframe(df)
        failed == ExceptHandler(df, dsm_data,
                      log_ingestion(ingestion_logs, 0, 0, Len(df.rows), "FAILED", v.msg),
                      ValidationFailed(v.msg))
    IN  /\ inflight[p].pc = "idle"
        /\ ncalls < MaxRace
        /\ ncalls' = ncalls + 1
        /\ IF ~v.ok
           THEN /\ ingestion_logs' = failed.logs
                /\ inflight' = [inflight EXCEPT ![p] =
                       [NoInflight EXCEPT !.pc = "done", !.df = df, !.raised = TRUE,
                            !.overwrite_duplicates = overwrite_duplicates]]
           ELSE /\ ingestion_logs' = ingestion_logs
                /\ inflight' = [inflight EXCEPT ![p] =
                       [pc |-> "detected", df |-> df,
                        overwrite_duplicates |-> overwrite_duplicates,
                        parts |-> detect_duplicates(align_to_schema(df), dsm_data),
                        seen |-> dsm_data, raised |-> FALSE]]
        /\ UNCHANGED <<dsm_data, call, fcall, session>>

\* lines 236-242: DELETE FROM dsm_data WHERE (Site, Month) IN (upload_data)
DeleteExisting(p) ==
    /\ inflight[p].pc = "detected"
    /\ inflight[p].overwrite_duplicates /\ inflight[p].parts.existing # <<>>
    /\ dsm_data' = DeleteIn(dsm_data, align_to_schema(inflight[p].df).rows)
    /\ inflight' = [inflight EXCEPT ![p].pc = "deleted"]
    /\ UNCHANGED <<ingestion_logs, call, ncalls, fcall, session>>

\* lines 248-255 and 276-288: INSERT of all rows, stats, the log row
InsertAll(p) ==
    LET c == inflight[p]
        rows == align_to_schema(c.df).rows
        err == InsertError(dsm_data, rows, "none")
        out == IF err # NoMessage
               THEN ExceptHandler(c.df, dsm_data, ingestion_logs, err)
               ELSE Success(InsertRows(dsm_data, rows), ingestion_logs,
                            [InitialStats(c.df) EXCEPT !.updated = Len(c.parts.existing),
                                                       !.inserted = Len(c.parts.new)])
    IN  /\ c.pc = "deleted"
        /\ dsm_data' = out.table
        /\ ingestion_logs' = out.logs
        /\ inflight' = [inflight EXCEPT ![p].pc = "done", ![p].raised = out.raised]
        /\ UNCHANGED <<call, ncalls, fcall, session>>

\* lines 257-288: INSERT of the new rows, stats, the log row
InsertNew(p) ==
    LET c == inflight[p]
        out == SkipBranch(c.df, c.parts, "none", dsm_data, ingestion_logs)
    IN  /\ c.pc = "detected"
        /\ ~(c.overwrite_duplicates /\ c.parts.existing # <<>>)
        /\ dsm_data' = out.table
        /\ ingestion_logs' = out.logs
        /\ inflight' = [inflight EXCEPT ![p].pc = "done", ![p].raised = out.raised]
        /\ UNCHANGED <<call, ncalls, fcall, session>>

\* The call of p is over; p may call again.
EndCall(p) ==
    /\ inflight[p].pc = "done"
    /\ inflight' = [inflight EXCEPT ![p] = NoInflight]
    /\ UNCHANGED <<dsm_data, ingestion_logs, call, ncalls, fcall, session>>

NextRace ==
    \E p \in Callers :
        \/ \E df \in RaceUploads, overwrite_duplicates \in BOOLEAN :
              Detect(p, df, overwrite_duplicates)
        \/ DeleteExisting(p)
        \/ InsertAll(p)
        \/ InsertNew(p)
        \/ EndCall(p)

SpecRace == Init /\ [][NextRace]_vars

(***************************************************************************)
(* Properties.                                                             *)
(***************************************************************************)
Ended == call # NoCall

\* The aligned rows of the call that has just ended.
CallRows == align_to_schema(call.df).rows

\* The ingestion_logs rows the call that has just ended wrote.
CallLogs == SubSeq(ingestion_logs, Len(ingestion_logs) - call.logged + 1, Len(ingestion_logs))

\* The number of rows of a table with the key of r.
RowsWithKey(table, r) ==
    BagCardinality([x \in {y \in DOMAIN table : UNIQUE_KEY(y) = UNIQUE_KEY(r)} |-> table[x]])

\* C1: no two persisted rows have the same (Site, Month).
C1_KeyUnique == \A r \in DOMAIN dsm_data : RowsWithKey(dsm_data, r) = 1

\* C2: a call of the overwrite branch that fails leaves dsm_data as it was:
\* the DELETE and the INSERT take effect together or not at all.
C2_OverwriteAtomic ==
    [][(call' # NoCall /\ call'.overwrite_duplicates /\ call'.raised)
          => dsm_data' = dsm_data]_vars

\* C3: every call of insert_dsm_data adds exactly one row to ingestion_logs.
C3_OneLogPerCall == Ended => call.logged = 1

\* C4: after a call with overwrite_duplicates = true and a batch that passes
\* validation, the same call once more leaves dsm_data with the same rows.
C4_OverwriteIdempotent ==
    (Ended /\ call.overwrite_duplicates /\ call.fault = "none"
           /\ validate_dataframe(call.df).ok)
        => RunInsert(call.df, TRUE, "none", dsm_data, ingestion_logs).table = dsm_data

\* The rows of an aligned batch whose key is the key of a row of the table.
Conflicting(rows, table) ==
    {i \in DOMAIN rows : \E r \in DOMAIN table : UNIQUE_KEY(r) = UNIQUE_KEY(rows[i])}

\* C5: a call with overwrite_duplicates = false keeps every persisted row,
\* writes no row on a key that was persisted, and when it succeeds counts the
\* batch rows with such a key as skipped.
C5_SkipKeepsRows ==
    [][(call' # NoCall /\ ~call'.overwrite_duplicates) =>
          /\ \A r \in DOMAIN dsm_data :
                /\ r \in DOMAIN dsm_data'
                /\ dsm_data'[r] >= dsm_data[r]
                /\ RowsWithKey(dsm_data', r) = RowsWithKey(dsm_data, r)
          /\ ~call'.raised =>
                call'.stats.skipped =
                    Cardinality(Conflicting(align_to_schema(call'.df).rows, dsm_data))]_vars

C5_Witness ==
    /\ Ended /\ ~call.overwrite_duplicates /\ ~call.raised
    /\ call.stats.skipped >= 1
    /\ \E i \in DOMAIN CallRows, r \in DOMAIN dsm_data :
          UNIQUE_KEY(r) = UNIQUE_KEY(CallRows[i]) /\ r # CallRows[i]

\* C6: after a successful call with overwrite_duplicates = true the table
\* holds, for every key of the batch, the row of the batch and no other, and
\* every other row as before.
C6_OverwriteReplaces ==
    [][(call' # NoCall /\ call'.overwrite_duplicates /\ ~call'.raised) =>
          LET rows == align_to_schema(call'.df).rows
              InBatch(r) == \E i \in DOMAIN rows : UNIQUE_KEY(rows[i]) = UNIQUE_KEY(r)
          IN  /\ \A i \in DOMAIN rows :
                    /\ rows[i] \in DOMAIN dsm_data'
                    /\ RowsWithKey(dsm_data', rows[i]) = 1
              /\ \A r \in DOMAIN dsm_data :
                    ~InBatch(r) => r \in DOMAIN dsm_data' /\ dsm_data'[r] = dsm_data[r]
              /\ \A r \in DOMAIN dsm_data' : ~InBatch(r) => r \in DOMAIN dsm_data]_vars

\* C7: the stats of a successful call are the sizes of the partition of
\* detect_duplicates: inserted the new rows; updated the existing rows and
\* skipped 0 in the overwrite branch, skipped the existing rows and updated 0
\* otherwise; they add up to total, the number of rows of the batch.
C7_ExactCounts ==
    [][(call' # NoCall /\ ~call'.raised) =>
          LET parts == detect_duplicates(align_to_schema(call'.df), dsm_data)
              stats == call'.stats
          IN  /\ stats.total = Len(call'.df.rows)
              /\ stats.inserted = Len(parts.new)
              /\ call'.overwrite_duplicates =>
                    /\ stats.updated = Len(parts.existing)
                    /\ stats.skipped = 0
                    /\ stats.inserted + stats.updated = stats.total
              /\ ~call'.overwrite_duplicates =>
                    /\ stats.skipped = Len(parts.existing)
                    /\ stats.updated = 0
                    /\ stats.inserted + stats.skipped = stats.total]_vars

C7_Witness ==
    /\ Ended /\ call.overwrite_duplicates /\ ~call.raised
    /\ call.stats.updated >= 1 /\ call.stats.inserted >= 1

\* C8: a call whose batch validate_dataframe rejects raises and leaves
\* dsm_data as it was.
C8_RejectedBatchNoMutation ==
    [][(call' # NoCall /\ ~validate_dataframe(call'.df).ok) =>
          call'.raised /\ dsm_data' = dsm_data]_vars

C8_Witness ==
    /\ Ended /\ call.raised
    /\ validate_dataframe(call.df).msg.kind = "duplicate rows"
    /\ Conflicting(CallRows, dsm_data) # {}

\* C9: a call that fails (rejected batch, or an error of the DELETE or the
\* INSERT) raises, and every ingestion_logs row it wrote, at least one, is
\* FAILED with 0 inserted, 0 updated, the rows of the batch skipped and the
\* error message; a call that raises wrote no SUCCESS row.
CallFailed ==
    \/ ~validate_dataframe(call.df).ok
    \/ call.fault # "none"
    \/ call.raised

C9_FailureLogged ==
    (Ended /\ CallFailed) =>
        /\ call.raised
        /\ call.logged >= 1
        /\ \A i \in DOMAIN CallLogs :
              /\ CallLogs[i].status = "FAILED"
              /\ CallLogs[i].rows_inserted = 0
              /\ CallLogs[i].rows_updated = 0
              /\ CallLogs[i].rows_skipped = Len(call.df.rows)
              /\ CallLogs[i].error_message # NoMessage

C9_Witness ==
    /\ Ended /\ call.raised /\ call.fault = "insert"
    /\ CallLogs = <<[log_id |-> Len(ingestion_logs), rows_inserted |-> 0,
                     rows_updated |-> 0, rows_skipped |-> Len(call.df.rows),
                     status |-> "FAILED", error_message |-> IOError]>>
    /\ \E i \in DOMAIN ingestion_logs :
          ingestion_logs[i].error_message.kind = "Validation failed: null values in key"

\* C10: detect_duplicates partitions the upload: every row is in exactly one
\* of existing and new, a row is in existing exactly when its (Site, Month)
\* is the key of a persisted row, and on an empty table the result is
\* (empty, all rows).
C10_DetectPartitions ==
    [][(call' # NoCall /\ validate_dataframe(call'.df).ok) =>
          LET df == align_to_schema(call'.df)
              parts == detect_duplicates(df, dsm_data)
          IN  /\ SeqToBag(parts.existing) (+) SeqToBag(parts.new) = SeqToBag(df.rows)
              /\ \A i \in DOMAIN df.rows :
                    df.rows[i] \in Range(parts.existing) <=> i \in Conflicting(df.rows, dsm_data)
              /\ dsm_data = EmptyBag => parts = [existing |-> <<>>, new |-> df.rows]]_vars

\* The number of rows of a batch whose (Site, Month) is the key of more than
\* one of its rows.
KeyRepeats(rows) ==
    Cardinality({i \in DOMAIN rows :
        Cardinality({j \in DOMAIN rows :
            rows[j].Site = rows[i].Site /\ rows[j].Month = rows[i].Month}) > 1})

\* C16: a batch with k > 0 rows whose key occurs more than once in it (and
\* with all required columns and no null key, so that the duplicate check is
\* reached) is rejected by validate_dataframe with the duplicate error, and
\* the error reports k, not the number of surplus rows.
C16_DuplicateCount ==
    (/\ Ended
     /\ REQUIRED_COLUMNS \subseteq call.df.columns
     /\ \A i \in DOMAIN call.df.rows :
           ~isnull(call.df.rows[i].Site) /\ ~isnull(call.df.rows[i].Month)
     /\ KeyRepeats(call.df.rows) > 0)
        => /\ call.raised
           /\ call.logged >= 1
           /\ CallLogs[1].error_message =
                 [kind |-> "duplicate rows",
                  count |-> KeyRepeats(call.df.rows), cols |-> {}]
           /\ validate_dataframe(call.df) =
                 [ok |-> FALSE,
                  msg |-> [kind |-> "duplicate rows",
                           count |-> KeyRepeats(call.df.rows), cols |-> {}]]

C16_Witness ==
    /\ Ended /\ call.raised
    /\ Len(call.df.rows) = 2
    /\ call.df.rows[1].Site = StrV("1") /\ call.df.rows[2].Site = StrV("1")
    /\ call.df.rows[1].Month = Jan /\ call.df.rows[2].Month = Jan
    /\ CallLogs[1].error_message.kind = "duplicate rows"
    /\ CallLogs[1].error_message.count = 2

\* C17: ingestion_logs is append-only: every step keeps the rows the log
\* had, in their order and with their content, and adds rows at the end only.
C17_LogAppendOnly ==
    [][/\ Len(ingestion_logs') >= Len(ingestion_logs)
       /\ SubSeq(ingestion_logs', 1, Len(ingestion_logs)) = ingestion_logs]_vars

C17_Witness ==
    /\ Ended /\ ncalls = 2 /\ call.logged = 1
    /\ Len(ingestion_logs) >= 2
    /\ ingestion_logs[1].status = "SUCCESS"
    /\ ingestion_logs[Len(ingestion_logs)].status = "FAILED"

\* C18: every row of dsm_data has a non-null Site and a non-null Month.
C18_NoNullKey ==
    \A r \in DOMAIN dsm_data : ~isnull(r.Site) /\ ~isnull(r.Month)

\* C19: validate_dataframe checks required columns, then null keys, then
\* repeated keys, and reports the first check that fails: a batch that lacks
\* required columns gets the missing-columns error naming all of them,
\* whatever its keys are; a batch with a null key gets the null-key error
\* even if it has repeated keys too.
C19_CheckOrder ==
    (fcall.fn = "validate_dataframe" /\ fcall.done) =>
        LET df == fcall.arg
            missing == REQUIRED_COLUMNS \ df.columns
            nullkey == \E i \in DOMAIN df.rows :
                          isnull(df.rows[i].Site) \/ isnull(df.rows[i].Month)
            repeated == KeyRepeats(df.rows) > 0
            kind == fcall.out.msg.kind
        IN  /\ missing # {} =>
                  /\ ~fcall.out.ok
                  /\ kind = "Missing required columns"
                  /\ fcall.out.msg.cols = missing
            /\ (missing = {} /\ nullkey) =>
                  ~fcall.out.ok /\ kind = "null values in key"
            /\ (missing = {} /\ ~nullkey /\ repeated) =>
                  ~fcall.out.ok /\ kind = "duplicate rows"
            /\ (missing = {} /\ ~nullkey /\ ~repeated) => fcall.out.ok

C19_Witness ==
    /\ fcall.fn = "validate_dataframe" /\ fcall.done
    /\ fcall.arg.columns = SchemaColumns
    /\ Len(fcall.arg.rows) = 2
    /\ isnull(fcall.arg.rows[1].Site)
    /\ KeyRepeats(fcall.arg.rows) = 2
    /\ fcall.out.msg.kind = "null values in key"

\* C20: detect_duplicates does not change the table it is given: after the
\* call, on an empty and on a non-empty store, the caller's upload has the
\* columns and the values it had before the call.
C20_DetectKeepsUpload ==
    (fcall.fn = "detect_duplicates" /\ fcall.done) =>
        fcall.out.staged_data = fcall.arg

C11_EnrichKeepsValues ==
    (fcall.fn = "enrich_dsm_data" /\ fcall.done) =>
        LET df == fcall.arg.df
            mapping_df == fcall.arg.mapping_df
        IN  /\ df.columns \subseteq fcall.out.columns
            /\ fcall.out.columns \ df.columns \subseteq mapping_df.columns
            /\ DOMAIN fcall.out.rows = DOMAIN df.rows
            /\ \A i \in DOMAIN df.rows :
                  \A c \in df.columns : fcall.out.rows[i][c] = df.rows[i][c]

C11_Witness ==
    /\ fcall.fn = "enrich_dsm_data" /\ fcall.done
    /\ fcall.arg.df.columns = {"Site", "QCA"}
    /\ fcall.arg.mapping_df.columns = {"Site", "QCA", "Technology", "State"}
    /\ Len(fcall.arg.df.rows) = 1
    /\ fcall.arg.df.rows[1] = [Site |-> StrV("WASHI"), QCA |-> StrV("Reconnect")]
    /\ Len(fcall.arg.mapping_df.rows) >= 1
    /\ fcall.arg.mapping_df.rows[1]["QCA"] = StrV("Climate Connect")
    /\ Len(fcall.out.rows) = 1
    /\ fcall.out.rows[1] = [Site |-> StrV("WASHI"), QCA |-> StrV("Reconnect"),
                            Technology |-> StrV("Solar"), State |-> StrV("MH")]

\* C13: Site cleaning and QCA cleaning are idempotent: cleaning a value that
\* is an output of the cleaning returns that value.
C13_CleaningIdempotent ==
    (fcall.fn = "standardize_columns" /\ fcall.done /\ Len(fcall.out) = 2) =>
        fcall.out[2] = fcall.out[1]

\* C14: for a Month value of the form Mon-YY, standardize_month returns the
\* first day of that month, in year 20yy when yy < 50 and in year 19yy
\* otherwise; and every result that is not null is a first of a month.
C14_MonYY ==
    (fcall.fn = "standardize_month" /\ fcall.done) =>
        /\ fcall.arg.val.form = "Mon-YY" =>
              fcall.out = Date(IF fcall.arg.val.year < 50
                               THEN 2000 + fcall.arg.val.year
                               ELSE 1900 + fcall.arg.val.year,
                               MonthNumber[fcall.arg.val.abbr], 1)
        /\ ~fcall.out.nat => fcall.out.day = 1

\* C15: a header whose normalized key has no entry in COLUMN_MAP is listed
\* in the mapping report's unmatched, keeps its name in standardize_columns
\* and is no column of the aligned output, "Plant Type" being such a header;
\* and every canonical field that no header of the upload resolves to is
\* listed in missing (Technology, when the upload has "Plant Type" and no
\* other header for it).
C15_UnmatchedAndMissing ==
    (fcall.fn = "get_mapping_report" /\ fcall.done) =>
        LET headers == fcall.arg
            Unmatched(i) ==
                /\ headers[i] \in Range(fcall.out.report.unmatched)
                /\ fcall.out.renamed[i] = headers[i]
                /\ headers[i] \notin Range(fcall.out.aligned)
        IN  /\ \A i \in DOMAIN headers :
                  normalize(headers[i]) \notin DOMAIN COLUMN_MAP => Unmatched(i)
            /\ \A i \in DOMAIN headers :
                  headers[i] = "Plant Type" =>
                      /\ Unmatched(i)
                      /\ "Technology" \notin Range(headers) =>
                            "Technology" \in fcall.out.report.missing
            /\ \A c \in SchemaColumns :
                  (\A i \in DOMAIN headers :
                      ~(/\ normalize(headers[i]) \in DOMAIN COLUMN_MAP
                        /\ COLUMN_MAP[normalize(headers[i])] = c))
                    => c \in fcall.out.report.missing

\* C24: a batch with all required columns, no null key and no repeated key
\* is never rejected by validation because Actual_Revenue_INR holds a value
\* that is no number: validate_dataframe accepts it, a call that raises
\* raises from a failed SQL statement, and a call that returns has written
\* the row (unless the skip branch skipped it as existing) with a null in
\* that field.
C24_NonNumericTolerated ==
    [][(/\ call' # NoCall
        /\ REQUIRED_COLUMNS \subseteq call'.df.columns
        /\ \A i \in DOMAIN call'.df.rows :
              ~isnull(call'.df.rows[i].Site) /\ ~isnull(call'.df.rows[i].Month)
        /\ KeyRepeats(call'.df.rows) = 0)
         => /\ validate_dataframe(call'.df).ok
            /\ call'.raised =>
                  ingestion_logs'[Len(ingestion_logs')].error_message
                      \in {ConstraintError, IOError}
            /\ ~call'.raised =>
                  \A i \in DOMAIN call'.df.rows :
                      LET b == call'.df.rows[i]
                          persisted ==
                              \E r \in DOMAIN dsm_data :
                                  merge_key(r) = merge_key(AlignRow(b))
                      IN  (/\ b.Actual_Revenue_INR.s \notin NumericStrings
                           /\ call'.overwrite_duplicates \/ ~persisted)
                            => \E r \in DOMAIN dsm_data' :
                                  /\ r.Site = StrV(b.Site.s)
                                  /\ r.Month = StrV(b.Month.s)
                                  /\ isnull(r.Actual_Revenue_INR)]_vars

C24_Witness ==
    /\ Ended /\ ~call.raised /\ call.fault = "none"
    /\ Len(call.df.rows) = 2
    /\ call.df.rows[1] = Row(StrV("1"), Jan, StrV("abc"))
    /\ call.df.rows[2] = Row(StrV("2"), Jan, StrV("abc"))
    /\ dsm_data = SeqToBag(<<Row(StrV("1"), Jan, NaN), Row(StrV("2"), Jan, NaN)>>)
    /\ ingestion_logs[Len(ingestion_logs)].status = "SUCCESS"

\* C26: for every batch validate_dataframe accepts, the aligned batch has no
\* null Site or Month and no two rows with the same (Site, Month):
\* align_to_schema neither creates a null key nor makes two keys equal.
C26_AlignKeepsKeys ==
    (Ended /\ validate_dataframe(call.df).ok) =>
        LET rows == align_to_schema(call.df).rows
        IN  /\ \A i \in DOMAIN rows : ~isnull(rows[i].Site) /\ ~isnull(rows[i].Month)
            /\ \A i, j \in DOMAIN rows :
                  UNIQUE_KEY(rows[i]) = UNIQUE_KEY(rows[j]) => i = j

\* The rows of a table that DELETE ... WHERE (Site, Month) IN (upload) removes.
Replaced(table, upload) ==
    BagCardinality(table) - BagCardinality(DeleteIn(table, upload))

\* C27: the comparison of '||'-joined keys in detect_duplicates agrees with
\* the comparison of (Site, Month) pairs the DELETE makes: a batch row is in
\* existing exactly when its key is the key of a row the DELETE removes, and
\* a successful overwrite reports as updated the number of rows it replaced.
C27_DetectAgreesWithDelete ==
    [][(call' # NoCall /\ validate_dataframe(call'.df).ok) =>
          LET df == align_to_schema(call'.df)
              parts == detect_duplicates(df, dsm_data)
          IN  /\ \A i \in DOMAIN df.rows :
                    df.rows[i] \in Range(parts.existing)
                        <=> \E r \in DOMAIN dsm_data : SqlKeyEq(r, df.rows[i])
              /\ (call'.overwrite_duplicates /\ ~call'.raised)
                    => call'.stats.updated = Replaced(dsm_data, df.rows)]_vars

\* C30: a null in a VARCHAR column of the batch (a QCA that clean_qca set to
\* None, for one) is a null in the same column of the table align_to_schema
\* returns, which is the row the INSERT persists; it is no text such as
\* 'None' or 'nan'.
C30_NullVarcharStaysNull ==
    (fcall.fn = "align_to_schema" /\ fcall.done /\ ~fcall.out.raised) =>
        \A i \in DOMAIN fcall.arg.rows :
            \A c \in fcall.arg.columns \cap SchemaColumns :
                (SchemaType[c] = "VARCHAR" /\ isnull(fcall.arg.rows[i][c]))
                    => isnull(fcall.out.rows[i][c])

\* C22: the Site cleaning of standardize_columns gives null for a text that
\* is empty or only blanks and for the text 'nan' (in any case, blanks
\* around it ignored), and for every other text the trimmed, lower-cased
\* text with its alias applied, in upper case.
C22_SiteCleaning ==
    (/\ fcall.fn = "standardize_columns" /\ fcall.done
     /\ fcall.arg.column = "Site" /\ fcall.arg.val.k = "str")
        => LET s == Lower(Strip(fcall.arg.val.s))
           IN  IF s = "" \/ s = "nan"
               THEN isnull(fcall.out[1])
               ELSE fcall.out[1] = StrV(Upper(ReplaceAlias(SITE_ALIASES, s)))

\* C21: when two raw headers of an upload resolve to one canonical name,
\* standardize_columns returns (it does not raise) a frame with exactly one
\* column of that name, and that column has the values of the later header.
C21_LaterHeaderWins ==
    (fcall.fn = "standardize_columns" /\ fcall.done) =>
        \A i, j \in DOMAIN fcall.arg :
            (/\ i < j
             /\ normalize(fcall.arg[i]) \in DOMAIN COLUMN_MAP
             /\ normalize(fcall.arg[j]) \in DOMAIN COLUMN_MAP
             /\ COLUMN_MAP[normalize(fcall.arg[i])] = COLUMN_MAP[normalize(fcall.arg[j])])
              => /\ ~fcall.out.raised
                 /\ \A n \in DOMAIN fcall.out.columns :
                       fcall.out.columns[n].name = COLUMN_MAP[normalize(fcall.arg[j])]
                           => fcall.out.columns[n].values = j

\* C23: in the upload flow a row of the file whose Month cannot be parsed is
\* not in the staged batch (no staged row has a null Month), while every row
\* with a Month that parses and a Site that is not 'nan' has its key staged;
\* the ingestion of the staged batch never fails with the null-key error,
\* and when it returns every staged key is the key of a persisted row.
C23_UnparseableMonthDropped ==
    [][/\ (/\ session.session_state.upload_stage = "idle"
           /\ session'.session_state.upload_stage # "idle")
          => LET raw == session.uploaded_file.rows
                 staged == session'.session_state.staged_data.rows
             IN  /\ "Month" \in session.uploaded_file.columns
                      => \A n \in DOMAIN staged : ~isnull(staged[n].Month)
                 /\ \A i \in DOMAIN raw :
                       (/\ "Month" \in session.uploaded_file.columns
                        /\ raw[i].Month.form \notin {"text", "null"}
                        /\ ~isnull(clean_site(raw[i].Site)))
                         => \E n \in DOMAIN staged, t \in TodayYears :
                               /\ staged[n].Site = clean_site(raw[i].Site)
                               /\ staged[n].Month = strftime(parse_month(raw[i].Month, t))
       /\ (/\ session.session_state.upload_stage # "idle"
           /\ call' # call /\ call' # NoCall
           /\ call'.df = session.session_state.staged_data)
          => /\ \A n \in (Len(ingestion_logs) + 1)..Len(ingestion_logs') :
                   ingestion_logs'[n].error_message.kind
                       \notin {"null values in key",
                                "Validation failed: null values in key"}
             /\ ~call'.raised =>
                   \A n \in DOMAIN call'.df.rows :
                       \E r \in DOMAIN dsm_data' :
                           /\ r.Site = call'.df.rows[n].Site
                           /\ r.Month = call'.df.rows[n].Month]_vars

C23_Witness ==
    /\ session.uploaded_file.rows =
          <<Row(StrV("washi"), NoMonth, NumV("10")),
            Row(StrV("WASHI"), Feb2025, NumV("10"))>>
    /\ session.session_state.upload_stage = "idle"
    /\ session.session_state.staged_data.rows = <<Row(StrV("WASHI"), Feb, NumV("10"))>>
    /\ Ended /\ ~call.raised /\ call.df = session.session_state.staged_data
    /\ dsm_data = SeqToBag(<<Row(StrV("WASHI"), Feb, NumV("10"))>>)
    /\ ingestion_logs[Len(ingestion_logs)].status = "SUCCESS"

\* C28: the automatic ingestion of stage 'processing' replaces no persisted
\* row: in the step that takes upload_stage from 'processing' to 'idle'
\* every row of dsm_data is kept, whatever was written to the store since
\* the staging.
C28_AutoInsertKeepsRows ==
    [][(/\ session.session_state.upload_stage = "processing"
        /\ session'.session_state.upload_stage = "idle")
         => /\ call'.stats.updated = 0
            /\ \A r \in DOMAIN dsm_data :
                  r \in DOMAIN dsm_data' /\ dsm_data'[r] >= dsm_data[r]]_vars

\* C29: a staged upload in stage 'processing' is followed by upload_stage
\* 'idle', given that every scheduled run of the script takes place.  Only
\* behaviours that stay below MaxCalls calls are judged, so a behaviour that
\* violates this ends in a state in which the script has ended and waits
\* for the user, with the retry still possible.
C29_ReturnsToIdle ==
    (session.session_state.upload_stage = "processing" /\ ncalls < MaxCalls)
        ~> (session.session_state.upload_stage = "idle" \/ ncalls >= MaxCalls)

\* The rows of the store with the key of r, as SQL compares keys.
SqlRowsWithKey(table, r) ==
    BagCardinality([x \in {y \in DOMAIN table : SqlKeyEq(y, r)} |-> table[x]])

\* Both callers are through a call on the same non-null key that was not
\* persisted when either of them read the store: both read before either
\* wrote.
BothReadFirst ==
    /\ \A p \in Callers :
          /\ inflight[p].pc = "done"
          /\ Len(inflight[p].parts.new) = 1
          /\ ~isnull(inflight[p].parts.new[1].Site)
    /\ SqlKeyEq(inflight[1].parts.new[1], inflight[2].parts.new[1])
    /\ inflight[1].seen = inflight[2].seen

====
